---- MODULE Spec2Model ----
(***************************************************************************)
(* State-machine model of the ProServer middleware back end:               *)
(*   backend/services/proevent_service.py   (reconciliation engine)        *)
(*   backend/services/proserver_service.py  (external DB access, notifier) *)
(*   backend/routes.py                      (public API)                   *)
(*   backend/admin_routes.py                (admin API)                    *)
(* The local store (sqlite_config), the auth module and the request models *)
(* are not part of the sources at hand; they are modelled from the design  *)
(* document and marked so in MODEL_MAP.json.                               *)
(***************************************************************************)
EXTENDS Integers, Sequences, FiniteSets, TLC

VARIABLES
    devState,     \* ProEvent_TBL.pevReactive_FRK per ProEvent_PRK (0 Reactive, 1 Non-Reactive)
    ignoredMap,   \* local store, ignore list: item_id -> [building_frk, ignore_on_arm, ignore_on_disarm]
    snapshots,    \* local store, snapshot table: building id -> list of [id, state]
    snapTaken,    \* history: device states of a building when its stored snapshot was taken
    snapFirst,    \* history: device states of a building at the first snapshot since its last revert
    schedules,    \* local store, building schedule table: building id -> start_time text
    users,        \* local store, admin_users: id -> [username, password_hash, is_admin]
    queries,      \* local store, query configuration: query name -> SQL text
    cache,        \* cache_service: key -> value (panel_armed, panel_state_cache)
    pending,      \* requests being served: request id -> its position and local values
    posted,       \* history: the value of the last completed POST /panel_status, if any
    revoked,      \* history: username -> "demoted" or "deleted", while that loss of admin rights stands
    last          \* history: the most recent operation, its inputs and its observable outputs

vars == <<devState, ignoredMap, snapshots, snapTaken, snapFirst, schedules, users, queries, cache, pending, posted, revoked, last>>

----------------------------------------------------------------------------
\* Bounds of the model

NumDevices == 2
NumBuildings == 2
MaxItems == 2

\* ProEvent_TBL rows and Building_TBL rows of the external database
Devices == 1..NumDevices
Buildings == 1..NumBuildings

\* ProEvent_TBL.pevBuilding_FRK: two devices per building, in id order; a
\* building beyond the last device has no ProEvents at all.
BuildingOf(d) == ((d - 1) \div 2) + 1

RECURSIVE SortedSeq(_)
SortedSeq(S) ==
    IF S = {} THEN <<>>
    ELSE LET m == CHOOSE x \in S : \A y \in S : x <= y
         IN <<m>> \o SortedSeq(S \ {m})

Range(s) == {s[i] : i \in 1..Len(s)}

----------------------------------------------------------------------------
\* proserver_service.py

\* get_proevents_for_building_from_db: the rows of the building, [] when the
\* query fails (the exception is logged and swallowed).
get_proevents_for_building_from_db(ds, building_id, readOk) ==
    IF readOk
    THEN LET ids == SortedSeq({d \in Devices : BuildingOf(d) = building_id})
         IN [i \in 1..Len(ids) |-> [id |-> ids[i], state |-> ds[ids[i]]]]
    ELSE <<>>

\* UPDATE ProEvent_TBL SET pevReactive_FRK = :state WHERE ProEvent_PRK = :proevent_id,
\* executed for each item of the list in order.
RECURSIVE ExecuteUpdates(_, _)
ExecuteUpdates(ds, data_to_update) ==
    IF data_to_update = <<>> THEN ds
    ELSE LET u == Head(data_to_update)
         IN ExecuteUpdates(IF u.id \in DOMAIN ds THEN [ds EXCEPT ![u.id] = u.state] ELSE ds,
                           Tail(data_to_update))

\* set_proevent_reactive_state_bulk: True without touching the database for an
\* empty list; otherwise one batched UPDATE, committed, or False on failure.
set_proevent_reactive_state_bulk(ds, target_states, writeOk) ==
    IF target_states = <<>> THEN [dev |-> ds, success |-> TRUE]
    ELSE IF writeOk THEN [dev |-> ExecuteUpdates(ds, target_states), success |-> TRUE]
    ELSE [dev |-> ds, success |-> FALSE]

----------------------------------------------------------------------------
\* proevent_service.py: apply_proevent_states_for_building

\* Step 2: the ids ignored by configuration for the current panel mode.
ActiveIgnoredIds(im, building_id, is_panel_armed) ==
    {pid \in DOMAIN im :
        /\ im[pid].building_frk = building_id
        /\ IF is_panel_armed THEN im[pid].ignore_on_arm ELSE im[pid].ignore_on_disarm}

TargetState_IgnoreBeforeForce(pid, current_state, force_reactive_ids, active_ignored_ids) ==
    IF pid \in active_ignored_ids THEN 1
    ELSE IF pid \in force_reactive_ids THEN 0
    ELSE IF current_state = 1 THEN 1
    ELSE 0

TargetState_NoPreservation(pid, current_state, force_reactive_ids, active_ignored_ids) ==
    IF pid \in force_reactive_ids THEN 0
    ELSE IF pid \in active_ignored_ids THEN 1
    ELSE 0

\* Step 3: rules A (force reactive), B (configuration ignore), C (manual
\* preservation), D (default reactive); the first that applies decides.
TargetState(pid, current_state, force_reactive_ids, active_ignored_ids) ==
    IF pid \in force_reactive_ids THEN 0
    ELSE IF pid \in active_ignored_ids THEN 1
    ELSE IF current_state = 1 THEN 1
    ELSE 0

TargetStates(all_proevents, force_reactive_ids, active_ignored_ids) ==
    [i \in 1..Len(all_proevents) |->
        [id |-> all_proevents[i].id,
         state |-> TargetState(all_proevents[i].id, all_proevents[i].state,
                               force_reactive_ids, active_ignored_ids)]]

\* next((x for x in all_proevents if x["id"] == target["id"]), None): the
\* rows with the id, in order; the first is the current device, none is None.
CurrentDevice(all_proevents, id) == SelectSeq(all_proevents, LAMBDA x : x.id = id)

FinalUpdates_NoDiff(all_proevents, target_states) == target_states

\* Step 4: the diff check.
FinalUpdates(all_proevents, target_states) ==
    SelectSeq(target_states,
              LAMBDA target :
                  LET current_device == CurrentDevice(all_proevents, target.id)
                  IN current_device # <<>> /\ current_device[1].state # target.state)

\* The whole function on a given database content: the content afterwards,
\* the computed target states and the lists handed to the bulk update.
apply_proevent_states_for_building(ds, im, building_id, is_panel_armed, force_reactive_ids, readOk, writeOk) ==
    LET all_proevents == get_proevents_for_building_from_db(ds, building_id, readOk)
        active_ignored_ids == ActiveIgnoredIds(im, building_id, is_panel_armed)
        target_states == TargetStates(all_proevents, force_reactive_ids, active_ignored_ids)
        final_updates == FinalUpdates(all_proevents, target_states)
    IN IF all_proevents = <<>>
       THEN [dev |-> ds, targets |-> <<>>, calls |-> <<>>]
       ELSE IF final_updates = <<>>
       THEN [dev |-> ds, targets |-> target_states, calls |-> <<>>]
       ELSE [dev |-> set_proevent_reactive_state_bulk(ds, final_updates, writeOk).dev,
             targets |-> target_states,
             calls |-> <<final_updates>>]

\* reevaluate_building_state: live_states.get(building_id) is None -> return.
\* live_states is the dict get_all_live_building_arm_states returned: a
\* function from the building ids it has an entry for to the armed flag.
reevaluate_building_state(ds, im, building_id, live_states, force_reactive_ids, readOk, writeOk) ==
    IF building_id \notin DOMAIN live_states
    THEN [dev |-> ds, targets |-> <<>>, calls |-> <<>>, applied |-> FALSE]
    ELSE LET r == apply_proevent_states_for_building(ds, im, building_id, live_states[building_id], force_reactive_ids, readOk, writeOk)
         IN [dev |-> r.dev, targets |-> r.targets, calls |-> r.calls, applied |-> TRUE]

----------------------------------------------------------------------------
\* State of the stores the reconciliation engine works on

IgnoreEntries ==
    [building_frk : Buildings, ignore_on_arm : BOOLEAN, ignore_on_disarm : BOOLEAN]

\* Any content of the ignore list: a row for some of the device ids.
IgnoreConfigs == UNION {[S -> IgnoreEntries] : S \in SUBSET Devices}

\* Empty tables (functions with an empty domain)
NoRows == <<>>

\* The query configuration the store is created with.
DefaultQueries == [query_name \in {"device", "building"} |-> "default"]

\* The external database holds any reactive state per device and the ignore
\* list any configuration; nothing else is stored yet.
Init ==
    /\ devState \in [Devices -> {0, 1}]
    /\ ignoredMap \in IgnoreConfigs
    /\ snapshots = NoRows
    /\ snapTaken = NoRows
    /\ snapFirst = NoRows
    /\ schedules = NoRows
    /\ users = NoRows
    /\ queries = DefaultQueries
    /\ cache = NoRows
    /\ pending = NoRows
    /\ posted = <<>>
    /\ revoked = NoRows
    /\ last = [op |-> "none"]

\* Outcomes of the database calls of one operation when the external
\* database is reachable.
DbUp == {TRUE}

\* No request is being served: the previous operation has returned.
Idle == last.op = "none"

\* The operation returns to its caller.
Return ==
    /\ ~Idle
    /\ last' = [op |-> "none"]
    /\ UNCHANGED <<devState, ignoredMap, snapshots, snapTaken, snapFirst, schedules, users, queries, cache, pending, posted, revoked>>

\* One run of apply_proevent_states_for_building (the try block, lines 96-163).
ApplyProeventStates(io) ==
    /\ Idle
    /\ \E building_id \in Buildings, is_panel_armed \in BOOLEAN,
          force_reactive_ids \in SUBSET Devices, readOk \in io, writeOk \in io :
           LET r == apply_proevent_states_for_building(devState, ignoredMap, building_id, is_panel_armed, force_reactive_ids, readOk, writeOk)
           IN /\ devState' = r.dev
              /\ last' = [op |-> "apply", building_id |-> building_id,
                          is_panel_armed |-> is_panel_armed,
                          force_reactive_ids |-> force_reactive_ids,
                          pre |-> devState, targets |-> r.targets, calls |-> r.calls]
              /\ UNCHANGED <<ignoredMap, snapshots, snapTaken, snapFirst, schedules, users, queries, cache, pending, posted, revoked>>

----------------------------------------------------------------------------
\* routes.py

\* The live arm-state map as one call of get_all_live_building_arm_states
\* returns it: building id -> True (armed) | False (disarmed), for the
\* buildings the device query has rows for.
LiveMaps == UNION {[S -> BOOLEAN] : S \in SUBSET Buildings}

\* IgnoredItemRequest (device_prk is stored and never read; it is left out).
IgnoredItems == [item_id : Devices, building_frk : Buildings, ignore : BOOLEAN]
BulkRequests == UNION {[1..n -> IgnoredItems] : n \in 0..MaxItems}

\* sqlite_config.set_proevent_ignore_status: upsert of the row of item_id.
set_proevent_ignore_status(im, item_id, building_frk, ignore_on_arm, ignore_on_disarm) ==
    (item_id :> [building_frk |-> building_frk, ignore_on_arm |-> ignore_on_arm,
                 ignore_on_disarm |-> ignore_on_disarm]) @@ im

\* manage_ignored_proevents_bulk, step 1: the loop over req.items.
RECURSIVE SaveIgnoreItems(_, _)
SaveIgnoreItems(im, items) ==
    IF items = <<>> THEN im
    ELSE LET item == Head(items)
         IN SaveIgnoreItems(
                set_proevent_ignore_status(im, item.item_id, item.building_frk, FALSE, item.ignore),
                Tail(items))

UnignoredIds(items) == {items[i].item_id : i \in {j \in 1..Len(items) : items[j].ignore = FALSE}}
UniqueBuildings(items) == {items[i].building_frk : i \in 1..Len(items)}

\* The force list handed to the re-evaluation of one building: the whole
\* unignored_ids list of the request.
ForceListFor(items, building_id) == UnignoredIds(items)

\* manage_ignored_proevents_bulk, step 2: one re-evaluation per building of
\* unique_buildings; the buildings own disjoint devices, so the iteration
\* order of the set does not matter and ascending order is taken.
RECURSIVE ReevaluateBuildings(_, _, _, _, _, _, _)
ReevaluateBuildings(acc, im, buildings, items, live, readOk, writeOk) ==
    IF buildings = <<>> THEN acc
    ELSE LET b == Head(buildings)
             force == ForceListFor(items, b)
             r == reevaluate_building_state(acc.dev, im, b, live, force, readOk, writeOk)
         IN ReevaluateBuildings(
                [dev |-> r.dev,
                 calls |-> acc.calls \o r.calls,
                 reevals |-> Append(acc.reevals,
                                    [building_id |-> b, force_reactive_ids |-> force,
                                     applied |-> r.applied])],
                im, Tail(buildings), items, live, readOk, writeOk)

\* POST /proevents/ignore/bulk
ManageIgnoredProeventsBulkOf(io, requests) ==
    /\ Idle
    /\ \E items \in requests, live \in LiveMaps, storeOk \in io, readOk \in io, writeOk \in io :
           /\ DOMAIN live \subseteq UniqueBuildings(items)
           /\ IF ~storeOk
              THEN /\ last' = [op |-> "ignore_bulk", status |-> 500, items |-> items,
                               live |-> live, reevals |-> <<>>, calls |-> <<>>]
                   /\ UNCHANGED <<devState, ignoredMap>>
              ELSE LET im == SaveIgnoreItems(ignoredMap, items)
                       r == ReevaluateBuildings([dev |-> devState, calls |-> <<>>, reevals |-> <<>>],
                                                im, SortedSeq(UniqueBuildings(items)), items,
                                                live, readOk, writeOk)
                   IN /\ ignoredMap' = im
                      /\ devState' = r.dev
                      /\ last' = [op |-> "ignore_bulk", status |-> 200, items |-> items,
                                  live |-> live, reevals |-> r.reevals, calls |-> r.calls]
           /\ UNCHANGED <<snapshots, snapTaken, snapFirst, schedules, users, queries, cache, pending, posted, revoked>>

ManageIgnoredProeventsBulk(io) == ManageIgnoredProeventsBulkOf(io, BulkRequests)

\* POST /buildings/{building_id}/reevaluate
\* POST /buildings/{building_id}/reevaluate: 500 when
\* reevaluate_building_state raises. The three calls it makes report a
\* failure by their return value ({} for the live states, [] for the devices,
\* False for the bulk update), so no exception reaches its except clause.
reevaluate_building(ds, im, building_id, live_states, readOk, writeOk) ==
    LET r == reevaluate_building_state(ds, im, building_id, live_states, {}, readOk, writeOk)
        raised == FALSE
    IN [status |-> IF raised THEN 500 ELSE 200, dev |-> r.dev, calls |-> r.calls, applied |-> r.applied]

ReevaluateBuilding(io) ==
    /\ Idle
    /\ \E building_id \in Buildings, live \in LiveMaps, liveOk \in io, readOk \in io, writeOk \in io :
           LET live_states == IF liveOk THEN live ELSE NoRows
               r == reevaluate_building(devState, ignoredMap, building_id, live_states, readOk, writeOk)
           IN /\ DOMAIN live \subseteq {building_id}
              /\ devState' = r.dev
              /\ last' = [op |-> "reevaluate", status |-> r.status, building_id |-> building_id,
                          live |-> live_states, pre |-> devState, calls |-> r.calls,
                          faults |-> [live |-> ~liveOk, read |-> ~readOk, write |-> ~writeOk]]
              /\ UNCHANGED <<ignoredMap, snapshots, snapTaken, snapFirst, schedules, users, queries, cache, pending, posted, revoked>>

----------------------------------------------------------------------------
\* The reconciliation engine and the public routes that drive it, with the
\* external database reachable.

\* apply_proevent_states_for_building called once more with the arguments of
\* the call that has just ended, before anything else touches the stores.
ApplyProeventStatesAgain(io) ==
    /\ last.op = "apply"
    /\ \E readOk \in io, writeOk \in io :
           LET r == apply_proevent_states_for_building(devState, ignoredMap, last.building_id, last.is_panel_armed, last.force_reactive_ids, readOk, writeOk)
           IN /\ devState' = r.dev
              /\ last' = [op |-> "apply_again", building_id |-> last.building_id,
                          is_panel_armed |-> last.is_panel_armed,
                          force_reactive_ids |-> last.force_reactive_ids,
                          first_pre |-> last.pre, first_calls |-> last.calls,
                          pre |-> devState, targets |-> r.targets, calls |-> r.calls]
              /\ UNCHANGED <<ignoredMap, snapshots, snapTaken, snapFirst, schedules, users, queries, cache, pending, posted, revoked>>

Next ==
    \/ ApplyProeventStates(DbUp)
    \/ ApplyProeventStatesAgain(DbUp)
    \/ ReevaluateBuilding(DbUp)
    \/ Return

Spec == Init /\ [][Next]_vars

\* The bulk ignore route on the same stores.
NextBulkIgnore ==
    \/ ManageIgnoredProeventsBulk(DbUp)
    \/ Return

SpecBulkIgnore == Init /\ [][NextBulkIgnore]_vars

----------------------------------------------------------------------------
\* Building schedules: routes.py set_building_scheduled_time and
\* proevent_service.py check_and_manage_scheduled_states

\* s[:n]
Prefix(s, n) == SubSeq(s, 1, IF Len(s) < n THEN Len(s) ELSE n)

\* start_time texts a request carries and the schedule table holds
\* ("HH:MM" or "HH:MM:SS").
StartTimes == {"20:00", "20:00:00", "20:01:30", "08:15"}

\* datetime.now(tz).strftime("%H:%M") in Asia/Kolkata
Clocks == {"20:00", "20:01", "08:15"}

\* Building names the building query returns, for the buildings it has a
\* row for.
BuildingNames == {"HQ"}
BuildingMaps == UNION {[S -> BuildingNames] : S \in SUBSET Buildings}

\* BuildingTimeRequest
BuildingTimeRequests == [building_id : Buildings, start_time : StartTimes]

\* sqlite_config.set_building_time: upsert of the row of the building.
set_building_time(sched, building_id, start_time) == (building_id :> start_time) @@ sched

set_building_scheduled_time_NoIdCheck(sched, building_id, request, storeOk) ==
    IF storeOk
    THEN [status |-> 200, sched |-> set_building_time(sched, request.building_id, request.start_time)]
    ELSE [status |-> 500, sched |-> sched]

\* POST /buildings/{building_id}/time: the status answered and the schedule
\* table afterwards.
set_building_scheduled_time(sched, building_id, request, storeOk) ==
    IF request.building_id # building_id
    THEN [status |-> 400, sched |-> sched]
    ELSE IF storeOk
    THEN [status |-> 200, sched |-> set_building_time(sched, building_id, request.start_time)]
    ELSE [status |-> 500, sched |-> sched]

SetBuildingScheduledTime(io) ==
    /\ Idle
    /\ \E building_id \in Buildings, request \in BuildingTimeRequests, storeOk \in io :
           LET r == set_building_scheduled_time(schedules, building_id, request, storeOk)
           IN /\ schedules' = r.sched
              /\ last' = [op |-> "set_time", status |-> r.status, building_id |-> building_id,
                          request |-> request, pre |-> schedules]
              /\ UNCHANGED <<devState, ignoredMap, snapshots, snapTaken, snapFirst, users, queries, cache, pending, posted, revoked>>

StartHHMM_NoTruncation(start_time) == IF start_time = "" THEN "20:00" ELSE start_time

\* (schedule.get("start_time") or "20:00")[:5]
StartHHMM(start_time) == Prefix(IF start_time = "" THEN "20:00" ELSE start_time, 5)

\* building_map.get(building_id, f"Building_{building_id}")
BuildingName(building_map, building_id) ==
    IF building_id \in DOMAIN building_map THEN building_map[building_id]
    ELSE "Building_" \o ToString(building_id)

\* send_axe_message: the messages written to the ProServer socket.
send_axe_message(building_name, is_armed, tcpOk) ==
    IF building_name = "" THEN <<>>
    ELSE IF tcpOk
    THEN <<"axe," \o building_name \o "_" \o (IF is_armed THEN "Is_Armed" ELSE "Is_Disarmed") \o "@">>
    ELSE <<>>

\* The loop body of check_and_manage_scheduled_states for one building: the
\* messages it sends.
ScheduledAlerts(sched, current_time, building_id, is_panel_armed, building_map, tcpOk) ==
    IF building_id \notin DOMAIN sched THEN <<>>
    ELSE IF current_time # StartHHMM(sched[building_id]) THEN <<>>
    ELSE IF is_panel_armed THEN <<>>
    ELSE send_axe_message(BuildingName(building_map, building_id), FALSE, tcpOk)

\* check_and_manage_scheduled_states: the messages sent, each with the
\* building whose loop iteration sent it. get_building_time raises for the
\* buildings of storeFail; the exception leaves the loop and is caught and
\* logged by the except clause around it.
RECURSIVE ScheduledLoop(_, _, _, _, _, _, _)
ScheduledLoop(sched, current_time, buildings, live, building_map, tcpOk, storeFail) ==
    IF buildings = <<>> THEN <<>>
    ELSE IF Head(buildings) \in storeFail THEN <<>>
    ELSE LET b == Head(buildings)
             msgs == ScheduledAlerts(sched, current_time, b, live[b], building_map, tcpOk)
         IN [i \in 1..Len(msgs) |-> [building_id |-> b, message |-> msgs[i]]]
            \o ScheduledLoop(sched, current_time, Tail(buildings), live, building_map, tcpOk, storeFail)

check_and_manage_scheduled_states(sched, current_time, live, building_map, tcpOk, storeFail) ==
    ScheduledLoop(sched, current_time, SortedSeq(DOMAIN live), live, building_map, tcpOk, storeFail)

CheckScheduledStates(io) ==
    /\ Idle
    /\ \E current_time \in Clocks, live \in LiveMaps, building_map \in BuildingMaps, tcpOk \in io,
          storeFail \in (IF io = DbUp THEN {{}} ELSE SUBSET Buildings) :
           /\ last' = [op |-> "scheduled_check", current_time |-> current_time, live |-> live,
                       building_map |-> building_map, tcpOk |-> tcpOk, storeFail |-> storeFail,
                       raised |-> FALSE,
                       sent |-> check_and_manage_scheduled_states(schedules, current_time, live, building_map, tcpOk, storeFail)]
           /\ UNCHANGED <<devState, ignoredMap, snapshots, snapTaken, snapFirst, schedules, users, queries, cache, pending, posted, revoked>>

\* A fresh local store; the external database content plays no part here.
InitSchedule ==
    /\ devState = [d \in Devices |-> 0]
    /\ ignoredMap = NoRows
    /\ snapshots = NoRows
    /\ snapTaken = NoRows
    /\ snapFirst = NoRows
    /\ schedules = NoRows
    /\ users = NoRows
    /\ queries = DefaultQueries
    /\ cache = NoRows
    /\ pending = NoRows
    /\ posted = <<>>
    /\ revoked = NoRows
    /\ last = [op |-> "none"]

NextSchedule ==
    \/ SetBuildingScheduledTime(DbUp)
    \/ CheckScheduledStates(DbUp)
    \/ Return

SpecSchedule == InitSchedule /\ [][NextSchedule]_vars

----------------------------------------------------------------------------
\* proevent_service.py: snapshot functions

\* sqlite_config.save_snapshot / clear_snapshot: one row per building.
save_snapshot(snaps, building_id, snapshot_data) == (building_id :> snapshot_data) @@ snaps
clear_snapshot(snaps, building_id) == [b \in DOMAIN snaps \ {building_id} |-> snaps[b]]

DisarmProfile_AllNonReactive(im, building_id, snapshot_data) ==
    [i \in 1..Len(snapshot_data) |-> [id |-> snapshot_data[i].id, state |-> 0]]

SnapshotData_AfterProfile(all_proevents) ==
    [i \in 1..Len(all_proevents) |-> [id |-> all_proevents[i].id, state |-> 0]]

\* snapshot_data = [{"id": p["id"], "state": p["state"]} for p in all_proevents]
SnapshotData(all_proevents) ==
    [i \in 1..Len(all_proevents) |->
        [id |-> all_proevents[i].id, state |-> all_proevents[i].state]]

\* The simulated disarmed profile: 1 for the ids ignored on disarm, else 0.
DisarmProfile(im, building_id, snapshot_data) ==
    LET ignored_ids == {pid \in DOMAIN im :
                           im[pid].building_frk = building_id /\ im[pid].ignore_on_disarm}
    IN [i \in 1..Len(snapshot_data) |->
           [id |-> snapshot_data[i].id,
            state |-> IF snapshot_data[i].id \in ignored_ids THEN 1 ELSE 0]]

\* take_snapshot_and_apply_schedule: the database content and the snapshot
\* table afterwards; an exception of the store is caught and ends the run.
take_snapshot_and_apply_schedule(ds, im, snaps, building_id, readOk, storeOk, writeOk) ==
    LET all_proevents == get_proevents_for_building_from_db(ds, building_id, readOk)
        snapshot_data == SnapshotData(all_proevents)
        target_states == DisarmProfile(im, building_id, snapshot_data)
    IN IF all_proevents = <<>> THEN [dev |-> ds, snaps |-> snaps, saved |-> FALSE]
       ELSE IF ~storeOk THEN [dev |-> ds, snaps |-> snaps, saved |-> FALSE]
       ELSE [dev |-> set_proevent_reactive_state_bulk(ds, target_states, writeOk).dev,
             snaps |-> save_snapshot(snaps, building_id, snapshot_data),
             saved |-> TRUE]

\* revert_snapshot: the bulk update reports a failure by its return value,
\* which is not looked at; clear_snapshot runs unless the store raises.
revert_snapshot(ds, snaps, building_id, snapshot_data, writeOk, storeOk) ==
    [dev |-> set_proevent_reactive_state_bulk(ds, snapshot_data, writeOk).dev,
     written |-> set_proevent_reactive_state_bulk(ds, snapshot_data, writeOk).success,
     snaps |-> IF storeOk THEN clear_snapshot(snaps, building_id) ELSE snaps]

\* The device states of a building as the database holds them.
StatesOfBuilding(ds, building_id) ==
    [d \in {x \in Devices : BuildingOf(x) = building_id} |-> ds[d]]

TakeSnapshotAndApplySchedule(io) ==
    /\ Idle
    /\ \E building_id \in Buildings, readOk \in io, storeOk \in io, writeOk \in io :
           LET r == take_snapshot_and_apply_schedule(devState, ignoredMap, snapshots, building_id, readOk, storeOk, writeOk)
           IN /\ devState' = r.dev
              /\ snapshots' = r.snaps
              /\ snapTaken' = IF r.saved
                               THEN (building_id :> StatesOfBuilding(devState, building_id)) @@ snapTaken
                               ELSE snapTaken
              /\ snapFirst' = IF r.saved /\ building_id \notin DOMAIN snapFirst
                               THEN (building_id :> StatesOfBuilding(devState, building_id)) @@ snapFirst
                               ELSE snapFirst
              /\ last' = [op |-> "snapshot", building_id |-> building_id, saved |-> r.saved,
                          pre |-> devState, replaced |-> building_id \in DOMAIN snapshots]
              /\ UNCHANGED <<ignoredMap, schedules, users, queries, cache, pending, posted, revoked>>

\* revert_snapshot called with the snapshot stored for the building.
RevertSnapshot(io) ==
    /\ Idle
    /\ \E building_id \in DOMAIN snapshots, writeOk \in io, storeOk \in io :
           LET r == revert_snapshot(devState, snapshots, building_id, snapshots[building_id], writeOk, storeOk)
           IN /\ devState' = r.dev
              /\ snapshots' = r.snaps
              /\ snapFirst' = [b \in DOMAIN snapFirst \cap DOMAIN r.snaps |-> snapFirst[b]]
              /\ last' = [op |-> "revert", building_id |-> building_id,
                          snapshot_data |-> snapshots[building_id],
                          first |-> snapFirst[building_id],
                          pre |-> devState, written |-> r.written]
              /\ UNCHANGED <<ignoredMap, snapTaken, schedules, users, queries, cache, pending, posted, revoked>>

\* Snapshot and revert, with re-evaluations of the buildings in between.
NextSnapshot ==
    \/ TakeSnapshotAndApplySchedule(DbUp)
    \/ RevertSnapshot(DbUp)
    \/ ReevaluateBuilding(DbUp)
    \/ Return

SpecSnapshot == Init /\ [][NextSnapshot]_vars

\* Snapshots and reverts while the external database or the local store may
\* be unreachable during a revert.
NextSnapshotFaults ==
    \/ TakeSnapshotAndApplySchedule(DbUp)
    \/ RevertSnapshot(BOOLEAN)
    \/ Return

SpecSnapshotFaults == Init /\ [][NextSnapshotFaults]_vars

----------------------------------------------------------------------------
\* admin_routes.py: user management

MaxUserId == 3

Usernames == {"ab", "bob", "admin"}
Passwords == {"12345", "123456"}
NewPasswords == {<<>>, <<"12345">>, <<"654321">>}
AdminFlags == {<<>>, <<TRUE>>, <<FALSE>>}

\* The Authorization header as the words authorization.split() gives; <<>>
\* when the header is missing or empty.
Authorizations ==
    {<<>>, <<"Bearer">>, <<"Bearer", "tok_admin", "x">>, <<"Basic", "tok_admin">>,
     <<"Bearer", "expired">>, <<"Bearer", "tok_admin">>, <<"bearer", "tok_bob">>}

CreateUserRequests == [username : Usernames, password : Passwords, is_admin : BOOLEAN]
UpdateUserRequests == [is_admin : AdminFlags, new_password : NewPasswords]

\* auth.hash_password
hash_password(password) == "hash:" \o password

\* The rows of admin_users with the given username, by id.
UserIdsNamed(us, username) == {i \in DOMAIN us : us[i].username = username}

\* The rowid of the next INSERT.
NextUserId(us) == IF DOMAIN us = {} THEN 1 ELSE (CHOOSE i \in DOMAIN us : \A j \in DOMAIN us : j <= i) + 1

get_sqlite_connection_NoRollback(before, after, raised) == after

\* get_sqlite_connection: rollback when the block raises, else commit.
get_sqlite_connection(before, after, raised) == IF raised THEN before ELSE after

\* str.lower()
UpperLetters == "ABCDEFGHIJKLMNOPQRSTUVWXYZ"
LowerLetters == "abcdefghijklmnopqrstuvwxyz"
LowerChar(c) ==
    IF \E i \in 1..Len(UpperLetters) : SubSeq(UpperLetters, i, i) = c
    THEN LET i == CHOOSE k \in 1..Len(UpperLetters) : SubSeq(UpperLetters, k, k) = c
         IN SubSeq(LowerLetters, i, i)
    ELSE c
RECURSIVE Lower(_)
Lower(s) == IF Len(s) = 0 THEN s ELSE LowerChar(SubSeq(s, 1, 1)) \o Lower(SubSeq(s, 2, Len(s)))

\* auth.get_current_user: the subject of a valid token, <<>> for a token
\* that is invalid or expired.
TokenSubjects == ("tok_admin" :> "admin") @@ ("tok_bob" :> "bob")
get_current_user(token) == IF token \in DOMAIN TokenSubjects THEN <<TokenSubjects[token]>> ELSE <<>>

\* get_current_admin_user: 401, or the username and the is_admin flag of
\* its row.
get_current_admin_user(us, authorization) ==
    IF authorization = <<>> THEN [status |-> 401, username |-> "", is_admin |-> FALSE]
    ELSE IF Len(authorization) # 2 THEN [status |-> 401, username |-> "", is_admin |-> FALSE]
    ELSE IF Lower(authorization[1]) # "bearer" THEN [status |-> 401, username |-> "", is_admin |-> FALSE]
    ELSE LET subject == get_current_user(authorization[2])
         IN IF subject = <<>> THEN [status |-> 401, username |-> "", is_admin |-> FALSE]
            ELSE IF UserIdsNamed(us, subject[1]) = {}
            THEN [status |-> 401, username |-> subject[1], is_admin |-> FALSE]
            ELSE [status |-> 200, username |-> subject[1],
                  is_admin |-> us[CHOOSE i \in UserIdsNamed(us, subject[1]) : TRUE].is_admin]

require_admin_NoAdminCheck(us, authorization) == get_current_admin_user(us, authorization)

\* get_current_admin_user followed by require_admin.
require_admin(us, authorization) ==
    LET auth_info == get_current_admin_user(us, authorization)
    IN IF auth_info.status = 200 /\ ~auth_info.is_admin
       THEN [status |-> 403, username |-> auth_info.username, is_admin |-> FALSE]
       ELSE auth_info

UsernameExists_Never(us, username) == FALSE

\* SELECT id FROM admin_users WHERE username = ? returns a row.
UsernameExists(us, username) == UserIdsNamed(us, username) # {}

create_user(us, request, admin_username, insertOk) ==
    IF Len(request.username) < 3 THEN [status |-> 400, users |-> us, logs |-> <<>>]
    ELSE IF Len(request.password) < 6 THEN [status |-> 400, users |-> us, logs |-> <<>>]
    ELSE IF UsernameExists(us, request.username)
    THEN [status |-> 400, users |-> get_sqlite_connection(us, us, TRUE), logs |-> <<"USER_CREATE_FAILED">>]
    ELSE LET inserted == (NextUserId(us) :> [username |-> request.username,
                                             password_hash |-> hash_password(request.password),
                                             is_admin |-> request.is_admin]) @@ us
         IN IF insertOk
            THEN [status |-> 200, users |-> get_sqlite_connection(us, inserted, FALSE), logs |-> <<"USER_CREATED">>]
            ELSE [status |-> 500, users |-> get_sqlite_connection(us, us, TRUE), logs |-> <<>>]

\* The two UPDATE statements of update_user.
SetAdminFlag(us, user_id, is_admin) == [us EXCEPT ![user_id].is_admin = is_admin]
SetPasswordHash(us, user_id, new_password) == [us EXCEPT ![user_id].password_hash = hash_password(new_password)]

RemovesOwnAdmin_Never(target_username, admin_username, request) == FALSE

\* target_username == admin_username and request.is_admin is False
RemovesOwnAdmin(target_username, admin_username, request) ==
    target_username = admin_username /\ request.is_admin = <<FALSE>>

update_user(us, user_id, request, admin_username) ==
    IF user_id \notin DOMAIN us
    THEN [status |-> 404, users |-> get_sqlite_connection(us, us, TRUE), logs |-> <<>>]
    ELSE LET target_username == us[user_id].username
             flagged == IF request.is_admin # <<>> THEN SetAdminFlag(us, user_id, request.is_admin[1]) ELSE us
             flagLogs == IF request.is_admin # <<>> THEN <<"USER_UPDATED">> ELSE <<>>
         IN IF RemovesOwnAdmin(target_username, admin_username, request)
            THEN [status |-> 400, users |-> get_sqlite_connection(us, us, TRUE), logs |-> <<>>]
            ELSE IF request.new_password = <<>> \/ request.new_password = <<"">>
            THEN [status |-> 200, users |-> get_sqlite_connection(us, flagged, FALSE), logs |-> flagLogs]
            ELSE IF Len(request.new_password[1]) < 6
            THEN [status |-> 400, users |-> get_sqlite_connection(us, flagged, TRUE), logs |-> flagLogs]
            ELSE [status |-> 200, logs |-> flagLogs \o <<"PASSWORD_RESET">>,
                  users |-> get_sqlite_connection(us, SetPasswordHash(flagged, user_id, request.new_password[1]), FALSE)]

delete_user(us, user_id, admin_username) ==
    IF user_id \notin DOMAIN us
    THEN [status |-> 404, users |-> get_sqlite_connection(us, us, TRUE), logs |-> <<>>]
    ELSE IF us[user_id].username = admin_username
    THEN [status |-> 400, users |-> get_sqlite_connection(us, us, TRUE), logs |-> <<>>]
    ELSE [status |-> 200, logs |-> <<"USER_DELETED">>,
          users |-> get_sqlite_connection(us, [i \in DOMAIN us \ {user_id} |-> us[i]], FALSE)]

\* A request that the dependency rejects never reaches the handler body.
\* The users whose admin rights were taken away and not given back: a row
\* that had is_admin and has it no more is demoted, a row that is gone is
\* deleted; the entry ends when a row of that name has is_admin again or a
\* row of a deleted name exists again.
HasAdminRow(us, name) == \E i \in DOMAIN us : us[i].username = name /\ us[i].is_admin
HasRow(us, name) == \E i \in DOMAIN us : us[i].username = name
RevokedAfter(rv, us, us2) ==
    LET demoted == {n \in Usernames : HasRow(us2, n) /\ ~HasAdminRow(us2, n)
                                       /\ (HasAdminRow(us, n) \/ (n \in DOMAIN rv /\ rv[n] = "demoted" /\ HasRow(us, n)))}
        deleted == {n \in Usernames : ~HasRow(us2, n) /\ (HasRow(us, n) \/ n \in DOMAIN rv)}
    IN [n \in demoted \cup deleted |-> IF n \in demoted THEN "demoted" ELSE "deleted"]

Rejected(auth) == [status |-> auth.status, users |-> users, logs |-> <<>>]

CreateUser(io) ==
    /\ Idle
    /\ \E authorization \in Authorizations, request \in CreateUserRequests, insertOk \in io :
           LET auth == require_admin(users, authorization)
               r == IF auth.status # 200 THEN Rejected(auth)
                    ELSE create_user(users, request, auth.username, insertOk)
           IN /\ NextUserId(users) <= MaxUserId
              /\ users' = r.users
              /\ last' = [op |-> "create_user", status |-> r.status, auth |-> auth, authorization |-> authorization,
                          request |-> request, pre |-> users, logs |-> r.logs]
              /\ revoked' = RevokedAfter(revoked, users, users')
              /\ UNCHANGED <<devState, ignoredMap, snapshots, snapTaken, snapFirst, schedules, queries, cache, pending, posted>>

UpdateUser(io) ==
    /\ Idle
    /\ \E authorization \in Authorizations, user_id \in 1..MaxUserId, request \in UpdateUserRequests :
           LET auth == require_admin(users, authorization)
               r == IF auth.status # 200 THEN Rejected(auth)
                    ELSE update_user(users, user_id, request, auth.username)
           IN /\ users' = r.users
              /\ last' = [op |-> "update_user", status |-> r.status, auth |-> auth, authorization |-> authorization, user_id |-> user_id,
                          request |-> request, pre |-> users, logs |-> r.logs]
              /\ revoked' = RevokedAfter(revoked, users, users')
              /\ UNCHANGED <<devState, ignoredMap, snapshots, snapTaken, snapFirst, schedules, queries, cache, pending, posted>>

DeleteUser(io) ==
    /\ Idle
    /\ \E authorization \in Authorizations, user_id \in 1..MaxUserId :
           LET auth == require_admin(users, authorization)
               r == IF auth.status # 200 THEN Rejected(auth)
                    ELSE delete_user(users, user_id, auth.username)
           IN /\ users' = r.users
              /\ last' = [op |-> "delete_user", status |-> r.status, auth |-> auth, authorization |-> authorization, user_id |-> user_id,
                          pre |-> users, logs |-> r.logs]
              /\ revoked' = RevokedAfter(revoked, users, users')
              /\ UNCHANGED <<devState, ignoredMap, snapshots, snapTaken, snapFirst, schedules, queries, cache, pending, posted>>

\* auth.verify_password
verify_password(password, password_hash) == hash_password(password) = password_hash

LoginRequests == [username : {"bob", "admin"}, password : {"admin123", "123456"}]
ChangePasswordRequests == [current_password : {"admin123", "123456"}, new_password : {"123456"}]
QueryNames == {"device", "other"}
QueryTexts == {"SELECT 1", "DROP"}
QueryRequests == [query_name : {"device"}, query_sql : QueryTexts]

\* query_config: validate_query_syntax, set_query, get_query_with_sql,
\* get_default_query.
validate_query_syntax(query_sql) == query_sql = "SELECT 1"
set_query(qs, query_name, query_sql) == (query_name :> query_sql) @@ qs
get_query_with_sql(qs, query_name) == IF query_name \in DOMAIN qs THEN <<qs[query_name]>> ELSE <<>>
get_default_query(query_name) == IF query_name \in DOMAIN DefaultQueries THEN <<DefaultQueries[query_name]>> ELSE <<>>

\* POST /admin/login
login(us, request) ==
    LET rows == UserIdsNamed(us, request.username)
    IN IF rows = {} \/ ~verify_password(request.password, us[CHOOSE i \in rows : TRUE].password_hash)
       THEN [status |-> 401, users |-> get_sqlite_connection(us, us, TRUE), logs |-> <<"LOGIN_FAILED">>]
       ELSE [status |-> 200, users |-> get_sqlite_connection(us, us, FALSE), logs |-> <<"LOGIN_SUCCESS">>]

\* UPDATE admin_users SET password_hash = ? WHERE username = ?
SetPasswordHashOf(us, username, new_password) ==
    [i \in DOMAIN us |-> IF us[i].username = username
                          THEN [us[i] EXCEPT !.password_hash = hash_password(new_password)]
                          ELSE us[i]]

\* POST /admin/change-password
change_password(us, request, username) ==
    LET rows == UserIdsNamed(us, username)
    IN IF rows = {} THEN [status |-> 404, users |-> get_sqlite_connection(us, us, TRUE), logs |-> <<>>]
       ELSE IF ~verify_password(request.current_password, us[CHOOSE i \in rows : TRUE].password_hash)
       THEN [status |-> 401, users |-> get_sqlite_connection(us, us, TRUE), logs |-> <<"PASSWORD_CHANGE_FAILED">>]
       ELSE [status |-> 200, logs |-> <<"PASSWORD_CHANGED">>,
             users |-> get_sqlite_connection(us, SetPasswordHashOf(us, username, request.new_password), FALSE)]

\* GET /admin/queries, GET /admin/queries/{query_name},
\* GET /admin/queries/{query_name}/default
list_queries(username) == [status |-> 200, logs |-> <<"VIEWED_QUERIES_LIST">>]
get_query_details(qs, query_name, username) ==
    [status |-> IF get_query_with_sql(qs, query_name) = <<>> THEN 404 ELSE 200, logs |-> <<"VIEWED_QUERY">>]
get_default_query_endpoint(query_name, username) ==
    [status |-> IF get_default_query(query_name) = <<>> THEN 404 ELSE 200, logs |-> <<"LOADED_DEFAULT_QUERY">>]

\* POST /admin/queries
update_query(qs, request, admin_username, storeOk) ==
    IF ~validate_query_syntax(request.query_sql)
    THEN [status |-> 400, queries |-> qs, logs |-> <<"QUERY_UPDATE_FAILED">>]
    ELSE IF ~storeOk THEN [status |-> 500, queries |-> qs, logs |-> <<"QUERY_UPDATE_FAILED">>]
    ELSE [status |-> 200, queries |-> set_query(qs, request.query_name, request.query_sql),
          logs |-> <<"QUERY_UPDATED">>]

\* GET /admin/users
list_users(admin_username) == [status |-> 200, logs |-> <<"VIEWED_USERS_LIST">>]

Login(io) ==
    /\ Idle
    /\ \E request \in LoginRequests :
           LET r == login(users, request)
           IN /\ users' = r.users
              /\ last' = [op |-> "login", status |-> r.status, request |-> request,
                          pre |-> users, logs |-> r.logs]
              /\ revoked' = RevokedAfter(revoked, users, users')
              /\ UNCHANGED <<devState, ignoredMap, snapshots, snapTaken, snapFirst, schedules, queries, cache, pending, posted>>

ChangePassword(io) ==
    /\ Idle
    /\ \E authorization \in Authorizations, request \in ChangePasswordRequests :
           LET auth == get_current_admin_user(users, authorization)
               r == IF auth.status # 200 THEN Rejected(auth)
                    ELSE change_password(users, request, auth.username)
           IN /\ users' = r.users
              /\ last' = [op |-> "change_password", status |-> r.status, auth |-> auth,
                          authorization |-> authorization, request |-> request,
                          pre |-> users, logs |-> r.logs]
              /\ revoked' = RevokedAfter(revoked, users, users')
              /\ UNCHANGED <<devState, ignoredMap, snapshots, snapTaken, snapFirst, schedules, queries, cache, pending, posted>>

\* The three read-only query routes and GET /admin/users.
ReadRoutes == {"list_queries", "get_query_details", "get_default_query_endpoint", "list_users"}

ReadRoute(io) ==
    /\ Idle
    /\ \E route \in ReadRoutes, authorization \in Authorizations, query_name \in QueryNames :
           LET auth == IF route = "list_users" THEN require_admin(users, authorization)
                       ELSE get_current_admin_user(users, authorization)
               r == IF auth.status # 200 THEN [status |-> auth.status, logs |-> <<>>]
                    ELSE IF route = "list_queries" THEN list_queries(auth.username)
                    ELSE IF route = "get_query_details" THEN get_query_details(queries, query_name, auth.username)
                    ELSE IF route = "get_default_query_endpoint" THEN get_default_query_endpoint(query_name, auth.username)
                    ELSE list_users(auth.username)
           IN /\ last' = [op |-> route, status |-> r.status, auth |-> auth,
                          authorization |-> authorization, query_name |-> query_name,
                          pre |-> users, logs |-> r.logs]
              /\ UNCHANGED <<devState, ignoredMap, snapshots, snapTaken, snapFirst, schedules, users, queries, cache, pending, posted, revoked>>

UpdateQuery(io) ==
    /\ Idle
    /\ \E authorization \in Authorizations, request \in QueryRequests, storeOk \in io :
           LET auth == require_admin(users, authorization)
               r == IF auth.status # 200 THEN [status |-> auth.status, queries |-> queries, logs |-> <<>>]
                    ELSE update_query(queries, request, auth.username, storeOk)
           IN /\ queries' = r.queries
              /\ last' = [op |-> "update_query", status |-> r.status, auth |-> auth,
                          authorization |-> authorization, request |-> request,
                          pre |-> users, logs |-> r.logs]
              /\ UNCHANGED <<devState, ignoredMap, snapshots, snapTaken, snapFirst, schedules, users, cache, pending, posted, revoked>>

\* The store after seeding: one administrator.
InitAdmin ==
    /\ devState = [d \in Devices |-> 0]
    /\ ignoredMap = NoRows
    /\ snapshots = NoRows
    /\ snapTaken = NoRows
    /\ snapFirst = NoRows
    /\ schedules = NoRows
    /\ users = (1 :> [username |-> "admin", password_hash |-> hash_password("admin123"), is_admin |-> TRUE])
    /\ queries = DefaultQueries
    /\ cache = NoRows
    /\ pending = NoRows
    /\ posted = <<>>
    /\ revoked = NoRows
    /\ last = [op |-> "none"]

NextAdmin ==
    \/ CreateUser(DbUp)
    \/ UpdateUser(DbUp)
    \/ DeleteUser(DbUp)
    \/ Return

SpecAdmin == InitAdmin /\ [][NextAdmin]_vars

\* Every route of the Admin API.
NextAdminApi ==
    \/ Login(DbUp)
    \/ ChangePassword(DbUp)
    \/ ReadRoute(DbUp)
    \/ UpdateQuery(DbUp)
    \/ CreateUser(DbUp)
    \/ UpdateUser(DbUp)
    \/ DeleteUser(DbUp)
    \/ Return

SpecAdminApi == InitAdmin /\ [][NextAdminApi]_vars

----------------------------------------------------------------------------
\* proserver_service.py: get_all_live_building_arm_states

MaxRows == 3

\* A column of a result row: <<>> for NULL, else <<value>>.
StateTexts == {"", "AreaArmingStates.1", "AreaArmingStates.2", " AreaArmingStates.2 ", "Prefix_AreaArmingStates.2_Suffix"}
StateColumns == {<<>>} \cup {<<t>> : t \in StateTexts}
BuildingIdColumns == {<<>>} \cup {<<b>> : b \in Buildings}
DeviceRows == {<<b, t>> : b \in BuildingIdColumns, t \in StateColumns}
DeviceQueryResults == UNION {[1..n -> DeviceRows] : n \in 0..MaxRows}

\* needle in s
Contains(needle, s) ==
    \E i \in 1..(Len(s) - Len(needle) + 1) : SubSeq(s, i, i + Len(needle) - 1) = needle

\* str.strip()
RECURSIVE LStrip(_)
LStrip(s) == IF Len(s) > 0 /\ SubSeq(s, 1, 1) = " " THEN LStrip(SubSeq(s, 2, Len(s))) ELSE s
RECURSIVE RStrip(_)
RStrip(s) == IF Len(s) > 0 /\ SubSeq(s, Len(s), Len(s)) = " " THEN RStrip(SubSeq(s, 1, Len(s) - 1)) ELSE s
Strip(s) == RStrip(LStrip(s))

\* not building_id: NULL or zero.
NoBuildingId(column) == column = <<>> \/ column[1] = 0

\* str(state_txt or "").strip()
StateStr(column) == Strip(IF column = <<>> THEN "" ELSE column[1])

IsArmed_ExactMatch(state_str) == state_str # "AreaArmingStates.2"

\* is_armed of a row
IsArmed(state_str) == ~Contains("AreaArmingStates.2", state_str)

\* The loop over the rows; a later row of a building replaces its entry.
RECURSIVE ArmStatesLoop(_, _)
ArmStatesLoop(rows, result) ==
    IF rows = <<>> THEN result
    ELSE LET row == Head(rows)
         IN IF Len(row) < 2 THEN ArmStatesLoop(Tail(rows), result)
            ELSE IF NoBuildingId(row[1]) THEN ArmStatesLoop(Tail(rows), result)
            ELSE ArmStatesLoop(Tail(rows), (row[1][1] :> IsArmed(StateStr(row[2]))) @@ result)

\* get_all_live_building_arm_states: {} without a configured query or when
\* the query fails.
get_all_live_building_arm_states(rows, queryOk) ==
    IF ~queryOk THEN NoRows ELSE ArmStatesLoop(rows, NoRows)

GetAllLiveBuildingArmStates(io) ==
    /\ Idle
    /\ \E rows \in DeviceQueryResults, queryOk \in io :
           /\ last' = [op |-> "live_states", rows |-> rows,
                       result |-> get_all_live_building_arm_states(rows, queryOk)]
           /\ UNCHANGED <<devState, ignoredMap, snapshots, snapTaken, snapFirst, schedules, users, queries, cache, pending, posted, revoked>>

NextArm ==
    \/ GetAllLiveBuildingArmStates(DbUp)
    \/ Return

SpecArm == InitSchedule /\ [][NextArm]_vars

----------------------------------------------------------------------------
\* proevent_service.py: the panel-state change sweep

\* cache_service.get_cache_value / set_cache_value
get_cache_value(c, key) == IF key \in DOMAIN c THEN <<c[key]>> ELSE <<>>
set_cache_value(c, key, value) == (key :> value) @@ c

\* cache_service.get_cache_value("panel_state_cache") or {}
CachedStates(c) ==
    LET cached == get_cache_value(c, "panel_state_cache")
    IN IF cached = <<>> \/ cached[1] = NoRows THEN NoRows ELSE cached[1]

\* The calls of one building that fail: the read of its devices, the read of
\* the ignore list from the local store, the bulk update.
NoFaults == [read |-> {}, store |-> {}, write |-> {}]
BuildingFaults == [read : SUBSET Buildings, store : SUBSET Buildings, write : SUBSET Buildings]

\* apply_proevent_states_for_building inside its try block: an exception of
\* the local store ends the run of that building and is logged.
ApplyInSweep(ds, im, building_id, is_panel_armed, faults) ==
    IF building_id \in faults.store /\ building_id \notin faults.read
       /\ get_proevents_for_building_from_db(ds, building_id, TRUE) # <<>>
    THEN [dev |-> ds, targets |-> <<>>, calls |-> <<>>]
    ELSE apply_proevent_states_for_building(ds, im, building_id, is_panel_armed, {},
                                            building_id \notin faults.read, building_id \notin faults.write)

\* The cache entry of a building after its turn: written when the cached flag
\* is missing or differs from the live one.
NewCachedStates(new_cached_states, cached_states, building_id, is_panel_armed) ==
    LET key == ToString(building_id)
    IN IF key \notin DOMAIN cached_states \/ cached_states[key] # is_panel_armed
       THEN (key :> is_panel_armed) @@ new_cached_states
       ELSE new_cached_states

SweepStep_OnlyOnChange(acc, im, building_id, is_panel_armed, cached_states, faults) ==
    LET changed == NewCachedStates(acc.new_cached_states, cached_states, building_id, is_panel_armed) # acc.new_cached_states
        r == ApplyInSweep(acc.dev, im, building_id, is_panel_armed, faults)
    IN IF changed
       THEN [dev |-> r.dev,
             new_cached_states |-> NewCachedStates(acc.new_cached_states, cached_states, building_id, is_panel_armed),
             applies |-> Append(acc.applies,
                                [building_id |-> building_id, is_panel_armed |-> is_panel_armed,
                                 force_reactive_ids |-> {}, calls |-> r.calls])]
       ELSE acc

\* One turn of the loop of manage_proevents_on_panel_state_change.
SweepStep(acc, im, building_id, is_panel_armed, cached_states, faults) ==
    LET r == ApplyInSweep(acc.dev, im, building_id, is_panel_armed, faults)
    IN [dev |-> r.dev,
        new_cached_states |-> NewCachedStates(acc.new_cached_states, cached_states, building_id, is_panel_armed),
        applies |-> Append(acc.applies,
                           [building_id |-> building_id, is_panel_armed |-> is_panel_armed,
                            force_reactive_ids |-> {}, calls |-> r.calls])]

\* The loop over live_states.items().
RECURSIVE SweepLoop(_, _, _, _, _, _)
SweepLoop(acc, im, buildings, live_states, cached_states, faults) ==
    IF buildings = <<>> THEN acc
    ELSE SweepLoop(SweepStep(acc, im, Head(buildings), live_states[Head(buildings)], cached_states, faults),
                   im, Tail(buildings), live_states, cached_states, faults)

\* manage_proevents_on_panel_state_change
manage_proevents_on_panel_state_change(ds, im, c, live_states, faults) ==
    LET cached_states == CachedStates(c)
        r == SweepLoop([dev |-> ds, new_cached_states |-> cached_states, applies |-> <<>>],
                       im, SortedSeq(DOMAIN live_states), live_states, cached_states, faults)
    IN [dev |-> r.dev, applies |-> r.applies, raised |-> FALSE,
        cache |-> set_cache_value(c, "panel_state_cache", r.new_cached_states)]

PanelStateChangeSweep(io) ==
    /\ Idle
    /\ \E live \in LiveMaps, liveOk \in io, faults \in (IF io = DbUp THEN {NoFaults} ELSE BuildingFaults) :
           LET live_states == IF liveOk THEN live ELSE NoRows
               r == manage_proevents_on_panel_state_change(devState, ignoredMap, cache, live_states, faults)
           IN /\ devState' = r.dev
              /\ cache' = r.cache
              /\ last' = [op |-> "sweep", live |-> live_states, pre |-> devState, pre_cache |-> cache,
                          applies |-> r.applies, raised |-> r.raised, faults |-> faults]
              /\ UNCHANGED <<ignoredMap, snapshots, snapTaken, snapFirst, schedules, users, queries, pending, posted, revoked>>

\* Sweeps, with changes of the ignore list by one-item requests to the bulk
\* route in between.
SingleItemRequests == [1..1 -> IgnoredItems]

NextSweep ==
    \/ PanelStateChangeSweep(DbUp)
    \/ ManageIgnoredProeventsBulkOf(DbUp, SingleItemRequests)
    \/ Return

SpecSweep == Init /\ [][NextSweep]_vars

----------------------------------------------------------------------------
\* Operation with failing calls to the external database

Faulty == BOOLEAN

NextFaults ==
    \/ ReevaluateBuilding(Faulty)
    \/ Return

SpecFaults == Init /\ [][NextFaults]_vars

\* The scheduled-time check with failing reads of the schedule store and a
\* ProServer that may refuse the connection.
NextScheduleFaults ==
    \/ SetBuildingScheduledTime(DbUp)
    \/ CheckScheduledStates(Faulty)
    \/ Return

SpecScheduleFaults == InitSchedule /\ [][NextScheduleFaults]_vars


----------------------------------------------------------------------------
\* routes.py, the panel status endpoints. The handlers are plain functions,
\* which the framework runs on worker threads, so requests interleave between
\* the cache calls of a handler.

MaxRequests == 3
RequestIds == 1..MaxRequests

\* GET /panel_status, first step: status = get_cache_value('panel_armed')
GetPanelStatusRead ==
    \E rid \in RequestIds \ DOMAIN pending :
        /\ pending' = (rid :> [status |-> get_cache_value(cache, "panel_armed"),
                               after_post |-> posted])
                      @@ pending
        /\ UNCHANGED <<devState, ignoredMap, snapshots, snapTaken, snapFirst, schedules,
                       users, queries, cache, posted, last, revoked>>

\* GET /panel_status, second step: if status is None, status = True and
\* set_cache_value('panel_armed', status); return PanelStatus(armed=status)
GetPanelStatusReturn ==
    \E rid \in DOMAIN pending :
        LET status == pending[rid].status
            armed == IF status = <<>> THEN TRUE ELSE status[1]
        IN /\ cache' = IF status = <<>> THEN set_cache_value(cache, "panel_armed", TRUE) ELSE cache
           /\ pending' = [r \in DOMAIN pending \ {rid} |-> pending[r]]
           /\ last' = [op |-> "get_panel_status", armed |-> armed,
                       initialised |-> (status = <<>>),
                       after_post |-> pending[rid].after_post]
           /\ UNCHANGED <<devState, ignoredMap, snapshots, snapTaken, snapFirst, schedules,
                          users, queries, posted, revoked>>

\* POST /panel_status: set_cache_value('panel_armed', status.armed); return status
SetPanelStatus ==
    \E armed \in BOOLEAN :
        /\ cache' = set_cache_value(cache, "panel_armed", armed)
        /\ posted' = <<armed>>
        /\ last' = [op |-> "set_panel_status", armed |-> armed]
        /\ UNCHANGED <<devState, ignoredMap, snapshots, snapTaken, snapFirst, schedules,
                       users, queries, pending, revoked>>

InitPanelStatus ==
    /\ devState = [d \in Devices |-> 0]
    /\ ignoredMap = NoRows
    /\ snapshots = NoRows
    /\ snapTaken = NoRows
    /\ snapFirst = NoRows
    /\ schedules = NoRows
    /\ users = NoRows
    /\ queries = DefaultQueries
    /\ cache = NoRows
    /\ pending = NoRows
    /\ posted = <<>>
    /\ revoked = NoRows
    /\ last = [op |-> "none"]

NextPanelStatus ==
    \/ GetPanelStatusRead
    \/ GetPanelStatusReturn
    \/ SetPanelStatus

SpecPanelStatus == InitPanelStatus /\ [][NextPanelStatus]_vars

----------------------------------------------------------------------------
\* admin_routes.py, user management with requests in flight. The auth
\* dependencies are plain functions, run on a worker thread before the
\* handler; the handlers are coroutines without an await, so a handler body
\* runs as one step, and bodies of other requests can run between the
\* authorization of a request and its body.

MaxInFlight == 2
InFlightIds == 1..MaxInFlight

\* Headers with the token of admin, the token of bob, and no header.
TokenHeaders == {<<"Bearer", "tok_admin">>, <<"bearer", "tok_bob">>, <<>>}

\* Update requests that change the is_admin flag only.
FlagRequests == [is_admin : AdminFlags, new_password : {<<>>}]

\* Depends(require_admin) of PUT or DELETE /users/{user_id}: a request that
\* is not authorized is answered at once, an authorized one waits for its
\* handler body with the username the dependency returned.
AuthorizeUserRequest ==
    \E rid \in InFlightIds \ DOMAIN pending, authorization \in TokenHeaders,
       route \in {"update_user", "delete_user"}, user_id \in 1..MaxUserId, request \in FlagRequests :
        LET auth == require_admin(users, authorization)
        IN /\ \A q \in InFlightIds : q < rid => q \in DOMAIN pending
           /\ route = "delete_user" => request.is_admin = <<>>
           /\ IF auth.status # 200
              THEN /\ last' = [op |-> route, status |-> auth.status, step |-> "auth"]
                   /\ UNCHANGED pending
              ELSE /\ pending' = (rid :> [route |-> route, admin_username |-> auth.username,
                                          user_id |-> user_id, request |-> request])
                                 @@ pending
                   /\ UNCHANGED last
           /\ UNCHANGED <<devState, ignoredMap, snapshots, snapTaken, snapFirst, schedules,
                          users, queries, cache, posted, revoked>>

\* The body of update_user for an authorized request.
UpdateUserBody ==
    \E rid \in DOMAIN pending :
        /\ pending[rid].route = "update_user"
        /\ LET r == update_user(users, pending[rid].user_id, pending[rid].request, pending[rid].admin_username)
           IN /\ users' = r.users
              /\ last' = [op |-> "update_user", status |-> r.status, step |-> "body"]
        /\ pending' = [q \in DOMAIN pending \ {rid} |-> pending[q]]
        /\ revoked' = RevokedAfter(revoked, users, users')
        /\ UNCHANGED <<devState, ignoredMap, snapshots, snapTaken, snapFirst, schedules,
                       queries, cache, posted>>

\* The body of delete_user for an authorized request.
DeleteUserBody ==
    \E rid \in DOMAIN pending :
        /\ pending[rid].route = "delete_user"
        /\ LET r == delete_user(users, pending[rid].user_id, pending[rid].admin_username)
           IN /\ users' = r.users
              /\ last' = [op |-> "delete_user", status |-> r.status, step |-> "body"]
        /\ pending' = [q \in DOMAIN pending \ {rid} |-> pending[q]]
        /\ revoked' = RevokedAfter(revoked, users, users')
        /\ UNCHANGED <<devState, ignoredMap, snapshots, snapTaken, snapFirst, schedules,
                       queries, cache, posted>>

\* A store with the rows admin, bob and possibly ab, at least one of them
\* with is_admin.
AdminStores ==
    {us \in UNION {[1..n -> [username : Usernames, password_hash : {hash_password("123456")}, is_admin : BOOLEAN]] : n \in 2..MaxUserId} :
        /\ us[1].username = "admin" /\ us[2].username = "bob"
        /\ \A i \in DOMAIN us : i > 2 => us[i].username = "ab"
        /\ \E i \in DOMAIN us : us[i].is_admin}

InitAdminRace ==
    /\ devState = [d \in Devices |-> 0]
    /\ ignoredMap = NoRows
    /\ snapshots = NoRows
    /\ snapTaken = NoRows
    /\ snapFirst = NoRows
    /\ schedules = NoRows
    /\ users \in AdminStores
    /\ queries = DefaultQueries
    /\ cache = NoRows
    /\ pending = NoRows
    /\ posted = <<>>
    /\ revoked = NoRows
    /\ last = [op |-> "none"]

NextAdminRace ==
    \/ AuthorizeUserRequest
    \/ UpdateUserBody
    \/ DeleteUserBody

SpecAdminRace == InitAdminRace /\ [][NextAdminRace]_vars

----------------------------------------------------------------------------
\* A panel-state change sweep of the background thread and a bulk-ignore
\* request of a worker thread, each served call by call:
\* apply_proevent_states_for_building reads the devices, then reads the
\* ignore map and computes the differences, then issues the bulk update.
\* pending holds the two runs under "sweep" and "request" with their local
\* values; a run that has returned stays with pc = "done".

\* One-item requests that un-ignore a device.
UnignoreItems == {item \in IgnoredItems : item.ignore = FALSE}

\* manage_proevents_on_panel_state_change, for one building of the live map:
\* apply_proevent_states_for_building(building_id, is_panel_armed), step 1.
SweepReadDevices ==
    /\ "sweep" \notin DOMAIN pending
    /\ \E building_id \in Buildings, is_panel_armed \in BOOLEAN :
           pending' = ("sweep" :> [pc |-> "ignore_map", building_id |-> building_id,
                                   is_panel_armed |-> is_panel_armed, force_reactive_ids |-> {},
                                   all_proevents |-> get_proevents_for_building_from_db(devState, building_id, TRUE),
                                   final_updates |-> <<>>])
                      @@ pending
    /\ UNCHANGED <<devState, ignoredMap, snapshots, snapTaken, snapFirst, schedules,
                   users, queries, cache, posted, revoked, last>>

\* manage_ignored_proevents_bulk, step 1: set_proevent_ignore_status of the
\* item; unignored_ids and unique_buildings are kept for step 2.
RequestStoreWrite ==
    /\ "request" \notin DOMAIN pending
    /\ \E item \in UnignoreItems :
           /\ ignoredMap' = SaveIgnoreItems(ignoredMap, <<item>>)
           /\ pending' = ("request" :> [pc |-> "devices", building_id |-> item.building_frk,
                                        is_panel_armed |-> FALSE,
                                        force_reactive_ids |-> UnignoredIds(<<item>>),
                                        all_proevents |-> <<>>, final_updates |-> <<>>])
                         @@ pending
    /\ UNCHANGED <<devState, snapshots, snapTaken, snapFirst, schedules,
                   users, queries, cache, posted, revoked, last>>

\* manage_ignored_proevents_bulk, step 2: reevaluate_building_state reads
\* the live arm state of the building (found, armed or not) and
\* apply_proevent_states_for_building reads the devices.
RequestReadDevices ==
    /\ "request" \in DOMAIN pending
    /\ pending["request"].pc = "devices"
    /\ \E is_panel_armed \in BOOLEAN :
           pending' = [pending EXCEPT !["request"] =
                          [pending["request"] EXCEPT
                              !.pc = "ignore_map", !.is_panel_armed = is_panel_armed,
                              !.all_proevents = get_proevents_for_building_from_db(devState, pending["request"].building_id, TRUE)]]
    /\ UNCHANGED <<devState, ignoredMap, snapshots, snapTaken, snapFirst, schedules,
                   users, queries, cache, posted, revoked, last>>

\* apply_proevent_states_for_building, steps 2 to 4 of either run:
\* get_ignored_proevents, the target states and the differences; the run
\* returns here when nothing differs.
ApplyReadIgnoreMap ==
    /\ \E p \in DOMAIN pending :
           /\ pending[p].pc = "ignore_map"
           /\ LET run == pending[p]
                  active_ignored_ids == ActiveIgnoredIds(ignoredMap, run.building_id, run.is_panel_armed)
                  target_states == TargetStates(run.all_proevents, run.force_reactive_ids, active_ignored_ids)
                  final_updates == FinalUpdates(run.all_proevents, target_states)
              IN pending' = [pending EXCEPT ![p] =
                                [run EXCEPT !.pc = IF final_updates = <<>> THEN "done" ELSE "bulk_update",
                                            !.final_updates = final_updates]]
    /\ UNCHANGED <<devState, ignoredMap, snapshots, snapTaken, snapFirst, schedules,
                   users, queries, cache, posted, revoked, last>>

\* apply_proevent_states_for_building, step 5 of either run:
\* set_proevent_reactive_state_bulk(final_updates).
ApplyBulkUpdate ==
    /\ \E p \in DOMAIN pending :
           /\ pending[p].pc = "bulk_update"
           /\ devState' = set_proevent_reactive_state_bulk(devState, pending[p].final_updates, TRUE).dev
           /\ pending' = [pending EXCEPT ![p] = [pending[p] EXCEPT !.pc = "done"]]
    /\ UNCHANGED <<ignoredMap, snapshots, snapTaken, snapFirst, schedules,
                   users, queries, cache, posted, revoked, last>>

NextIgnoreRace ==
    \/ SweepReadDevices
    \/ RequestStoreWrite
    \/ RequestReadDevices
    \/ ApplyReadIgnoreMap
    \/ ApplyBulkUpdate

SpecIgnoreRace == Init /\ [][NextIgnoreRace]_vars
----------------------------------------------------------------------------
\* Properties of the reconciliation engine

\* The device is ignored by configuration for the panel mode of the run.
ConfiguredIgnored(pid, building_id, is_panel_armed) ==
    /\ pid \in DOMAIN ignoredMap
    /\ ignoredMap[pid].building_frk = building_id
    /\ IF is_panel_armed THEN ignoredMap[pid].ignore_on_arm
                         ELSE ignoredMap[pid].ignore_on_disarm

\* The device ids in the lists handed to set_proevent_reactive_state_bulk.
UpdatedIds(calls) ==
    UNION {{calls[i][j].id : j \in 1..Len(calls[i])} : i \in 1..Len(calls)}

\* The target states computed for a device id.
TargetsOf(targets, pid) == {targets[i].state : i \in {j \in 1..Len(targets) : targets[j].id = pid}}

\* C1: after any run of apply_proevent_states_for_building, a device of the
\* building that was stored as 1, is not in the force list and is not
\* configured-ignored for the panel mode of the run is still stored as 1 and
\* is not part of the bulk update.
C1_ManualPreservation ==
    last.op = "apply" =>
        \A d \in Devices :
            ( /\ BuildingOf(d) = last.building_id
              /\ last.pre[d] = 1
              /\ d \notin last.force_reactive_ids
              /\ ~ConfiguredIgnored(d, last.building_id, last.is_panel_armed) )
            => (devState[d] = 1 /\ d \notin UpdatedIds(last.calls))

\* A run that writes to the building while a manually set device is kept.
C1_Witness ==
    /\ last.op = "apply"
    /\ last.calls # <<>>
    /\ \E d \in Devices :
          /\ BuildingOf(d) = last.building_id
          /\ last.pre[d] = 1
          /\ d \notin last.force_reactive_ids
          /\ ~ConfiguredIgnored(d, last.building_id, last.is_panel_armed)
          /\ devState[d] = 1

\* C2: for every device of the building that is in the force list, the
\* computed target state is 0 and the stored state after the run is 0, also
\* when the device is configured-ignored for the panel mode, whatever its
\* state before.
C2_ForceOverridesIgnore ==
    last.op = "apply" =>
        \A d \in Devices :
            (BuildingOf(d) = last.building_id /\ d \in last.force_reactive_ids)
            => (TargetsOf(last.targets, d) = {0} /\ devState[d] = 0)

\* A forced device that is also configured-ignored and was stored as 1.
C2_Witness ==
    /\ last.op = "apply"
    /\ \E d \in Devices :
          /\ BuildingOf(d) = last.building_id
          /\ d \in last.force_reactive_ids
          /\ ConfiguredIgnored(d, last.building_id, last.is_panel_armed)
          /\ last.pre[d] = 1
          /\ devState[d] = 0

\* The devices of the building of the run whose computed target differs from
\* the state stored before the run.
Differing ==
    {d \in Devices : BuildingOf(d) = last.building_id
                     /\ TargetsOf(last.targets, d) # {last.pre[d]}}

\* C3: the list passed to the bulk update holds exactly the devices of the
\* building whose computed target differs from the stored state, each with
\* its target; every other device keeps its state; when no device differs,
\* the bulk update is not called.
C3_WritesOnlyDifferences ==
    last.op = "apply" =>
        /\ IF Differing = {}
           THEN last.calls = <<>>
           ELSE /\ Len(last.calls) = 1
                /\ UpdatedIds(last.calls) = Differing
                /\ Len(last.calls[1]) = Cardinality(Differing)
                /\ \A u \in Range(last.calls[1]) : TargetsOf(last.targets, u.id) = {u.state}
        /\ \A d \in Devices \ Differing : devState[d] = last.pre[d]
        /\ \A d \in Differing : TargetsOf(last.targets, d) = {devState[d]}

\* A run in which one device of the building differs and another does not.
C3_Witness ==
    /\ last.op = "apply"
    /\ Len(last.calls) = 1
    /\ Len(last.calls[1]) = 1
    /\ \E d \in Devices \ Differing : BuildingOf(d) = last.building_id

\* A run on a building whose devices are all as computed: no bulk update.
C3_WitnessNoCall ==
    /\ last.op = "apply"
    /\ \E d \in Devices : BuildingOf(d) = last.building_id
    /\ Differing = {}
    /\ last.calls = <<>>

\* C4: after POST /proevents/ignore/bulk has answered success, every item
\* sent with ignore = false has its item_id in the force list given to the
\* re-evaluation of its building_frk, and its device is stored as 0.
C4_UnignoredEndReactive ==
    (last.op = "ignore_bulk" /\ last.status = 200) =>
        \A i \in 1..Len(last.items) :
            last.items[i].ignore = FALSE =>
                /\ \E k \in 1..Len(last.reevals) :
                      /\ last.reevals[k].building_id = last.items[i].building_frk
                      /\ last.items[i].item_id \in last.reevals[k].force_reactive_ids
                /\ devState[last.items[i].item_id] = 0

----------------------------------------------------------------------------
\* Properties of the building schedules

\* The number of alerts the last scheduled-time check sent for a building.
AlertsFor(b) == Cardinality({i \in 1..Len(last.sent) : last.sent[i].building_id = b})

\* The building is due: it has a schedule, is live and disarmed, and the
\* clock equals its start_time cut to HH:MM.
AlertDue(b) ==
    /\ b \in DOMAIN schedules
    /\ b \in DOMAIN last.live
    /\ last.live[b] = FALSE
    /\ last.current_time = Prefix(schedules[b], 5)

\* C5: one invocation of the scheduled-time check sends exactly one
\* Is_Disarmed alert for each building that has a schedule, is disarmed and
\* whose start_time cut to HH:MM equals the clock, and none for any other
\* building.
C5_OneAlertPerDueBuilding ==
    last.op = "scheduled_check" =>
        /\ \A b \in Buildings : AlertsFor(b) = IF AlertDue(b) THEN 1 ELSE 0
        /\ \A i \in 1..Len(last.sent) :
              last.sent[i].message =
                  "axe," \o BuildingName(last.building_map, last.sent[i].building_id) \o "_Is_Disarmed@"

\* A check that alerts for a building whose start_time has seconds while an
\* armed building with the same start minute gets none.
C5_Witness ==
    /\ last.op = "scheduled_check"
    /\ Len(last.sent) = 1
    /\ \E b \in Buildings : AlertDue(b) /\ Len(schedules[b]) > 5
    /\ \E b \in DOMAIN schedules \cap DOMAIN last.live :
          last.live[b] /\ last.current_time = Prefix(schedules[b], 5)

\* C9: a request whose body building_id differs from the path id is answered
\* 400 and leaves the schedule table as it was; with equal ids the start_time
\* of that building becomes the request's and no other building's changes.
C9_ScheduleSave ==
    last.op = "set_time" =>
        IF last.request.building_id # last.building_id
        THEN last.status = 400 /\ schedules = last.pre
        ELSE /\ last.status = 200
             /\ last.building_id \in DOMAIN schedules
             /\ schedules[last.building_id] = last.request.start_time
             /\ DOMAIN schedules = DOMAIN last.pre \cup {last.building_id}
             /\ \A b \in DOMAIN last.pre \ {last.building_id} : schedules[b] = last.pre[b]

\* A mismatched request arriving when both buildings it names have schedules.
C9_Witness ==
    /\ last.op = "set_time"
    /\ last.request.building_id # last.building_id
    /\ {last.request.building_id, last.building_id} \subseteq DOMAIN schedules
    /\ schedules[last.request.building_id] # last.request.start_time

\* A matching request that replaces a stored start_time.
C9_WitnessSaved ==
    /\ last.op = "set_time"
    /\ last.request.building_id = last.building_id
    /\ last.building_id \in DOMAIN last.pre
    /\ last.pre[last.building_id] # last.request.start_time
    /\ DOMAIN schedules # {last.building_id}

----------------------------------------------------------------------------
\* Properties of snapshot and revert

\* C6: after take_snapshot_and_apply_schedule for a building and then
\* revert_snapshot with the stored snapshot, every device of the building has
\* the state it had when the snapshot was taken, and no snapshot is stored
\* for the building any more, so that a second revert has nothing to act on.
C6_SnapshotRevertRoundTrip ==
    last.op = "revert" =>
        /\ last.building_id \in DOMAIN snapTaken
        /\ \A d \in Devices :
              BuildingOf(d) = last.building_id
              => (d \in DOMAIN snapTaken[last.building_id]
                  /\ devState[d] = snapTaken[last.building_id][d])
        /\ last.building_id \notin DOMAIN snapshots

\* A revert that changes device states back: the snapshot had put a device
\* that was 1 to 0 and another that was 0 to 1.
C6_Witness ==
    /\ last.op = "revert"
    /\ \E d, e \in Devices :
          /\ BuildingOf(d) = last.building_id /\ BuildingOf(e) = last.building_id
          /\ devState[d] = 1 /\ d \notin ActiveIgnoredIds(ignoredMap, last.building_id, FALSE)
          /\ devState[e] = 0 /\ e \in ActiveIgnoredIds(ignoredMap, last.building_id, FALSE)

----------------------------------------------------------------------------
\* Properties of user management

\* The acting admin's own row, before the request.
OwnRequest == last.auth.status = 200 /\ last.user_id \in UserIdsNamed(last.pre, last.auth.username)

\* C7: an admin's PUT /admin/users/{id} on their own account with
\* is_admin=false is answered 400, and an admin's DELETE /admin/users/{id} on
\* their own account is answered 400; in both cases the acting admin's row
\* still exists afterwards with the same is_admin flag and password hash.
C7_NoSelfDemoteNoSelfDelete ==
    (\/ last.op = "update_user" /\ OwnRequest /\ last.request.is_admin = <<FALSE>>
     \/ last.op = "delete_user" /\ OwnRequest)
    => /\ last.status = 400
       /\ last.user_id \in DOMAIN users
       /\ users[last.user_id] = last.pre[last.user_id]
       /\ users[last.user_id].is_admin

\* A self-demotion that also carries a valid new password.
C7_Witness ==
    /\ last.op = "update_user" /\ OwnRequest
    /\ last.request.is_admin = <<FALSE>> /\ last.request.new_password = <<"654321">>
    /\ Cardinality(DOMAIN users) = 2

\* A self-deletion while another administrator exists.
C7_WitnessDelete ==
    /\ last.op = "delete_user" /\ OwnRequest
    /\ \E i \in DOMAIN users : i # last.user_id /\ users[i].is_admin

\* C8: POST /admin/users by an admin with a username shorter than 3
\* characters or a password shorter than 6 characters is answered 400 and
\* inserts no row; with the username of an existing user it is answered 400
\* and the set of users is unchanged; no two rows ever have the same username.
C8_CreateUserValidation ==
    /\ \A i, j \in DOMAIN users : users[i].username = users[j].username => i = j
    /\ (last.op = "create_user" /\ last.auth.status = 200)
       => /\ (Len(last.request.username) < 3 \/ Len(last.request.password) < 6)
             => (last.status = 400 /\ users = last.pre)
          /\ UserIdsNamed(last.pre, last.request.username) # {}
             => (last.status = 400 /\ users = last.pre)
          /\ (last.status = 200)
             => (DOMAIN users # DOMAIN last.pre /\ Len(last.request.username) >= 3
                 /\ Len(last.request.password) >= 6)

\* A duplicate username with an otherwise valid request.
C8_Witness ==
    /\ last.op = "create_user" /\ last.auth.status = 200
    /\ UserIdsNamed(last.pre, last.request.username) # {}
    /\ Len(last.request.password) >= 6

\* A two-character username, and a five-character password with a new name.
C8_WitnessShort ==
    /\ last.op = "create_user" /\ last.auth.status = 200
    /\ \/ Len(last.request.username) < 3 /\ Len(last.request.password) >= 6
       \/ Len(last.request.password) < 6 /\ last.request.username = "bob" /\ UserIdsNamed(last.pre, "bob") = {}

----------------------------------------------------------------------------
\* Properties of the live arm-state reader

\* The state texts of StateTexts that contain "AreaArmingStates.2".
DisarmedTexts == {"AreaArmingStates.2", " AreaArmingStates.2 ", "Prefix_AreaArmingStates.2_Suffix"}

\* The index of the last row of a building in the query result.
LastRowOf(rows, b) ==
    CHOOSE i \in 1..Len(rows) :
        /\ rows[i][1] = <<b>>
        /\ \A j \in 1..Len(rows) : rows[j][1] = <<b>> => j <= i

----------------------------------------------------------------------------
\* Properties of the Admin API

\* The routes behind get_current_admin_user, and those behind require_admin.
TokenRoutes ==
    {"change_password", "list_queries", "get_query_details", "get_default_query_endpoint",
     "update_query", "list_users", "create_user", "update_user", "delete_user"}
AdminOnlyRoutes == {"update_query", "list_users", "create_user", "update_user", "delete_user"}

\* The header is missing, is not two words, has a scheme other than Bearer,
\* carries a token that is not valid, or names a user without a row.
BadCredentials(header, us) ==
    \/ header = <<>>
    \/ Len(header) # 2
    \/ header[1] \notin {"Bearer", "bearer", "BEARER"}
    \/ header[2] \notin {"tok_admin", "tok_bob"}
    \/ \A i \in DOMAIN us : us[i].username # TokenSubjects[header[2]]

\* The token's user has a row whose is_admin flag is false.
LacksAdminFlag(header, us) ==
    /\ ~BadCredentials(header, us)
    /\ \E i \in DOMAIN us : us[i].username = TokenSubjects[header[2]] /\ ~us[i].is_admin

StoresUnchanged == UNCHANGED <<devState, ignoredMap, snapshots, schedules, users, queries, cache>>

\* C11: a request to any Admin API route other than login whose header is
\* missing, malformed, not Bearer, or whose token is invalid or names a user
\* absent from the store is answered 401 and writes nothing; a request to an
\* admin-only route by a user without the admin flag is answered 403 and
\* writes nothing.
C11_AuthRequired ==
    [][(Idle /\ last'.op \in TokenRoutes) =>
          /\ BadCredentials(last'.authorization, users)
                => (last'.status = 401 /\ StoresUnchanged)
          /\ (last'.op \in AdminOnlyRoutes /\ LacksAdminFlag(last'.authorization, users))
                => (last'.status = 403 /\ StoresUnchanged)]_vars

\* A delete of an existing user by a user without the admin flag.
C11_Witness ==
    /\ last.op = "delete_user" /\ last.status = 403
    /\ last.user_id \in DOMAIN users
    /\ LacksAdminFlag(last.authorization, users)

\* A password change with the token of a user whose row was deleted.
C11_WitnessAbsentUser ==
    /\ last.op = "change_password" /\ last.status = 401
    /\ last.authorization = <<"bearer", "tok_bob">>
    /\ Cardinality(DOMAIN users) = 2

----------------------------------------------------------------------------
\* Properties of error handling

\* A call made by the re-evaluation failed: the read of the live arm states,
\* the read of the building's devices, or the bulk update it issued.
FailedDuringReevaluate ==
    \/ last.faults.live
    \/ last.building_id \in DOMAIN last.live /\ last.faults.read
    \/ last.calls # <<>> /\ last.faults.write

\* C12: when the read of the live arm states, the read of the building's
\* devices or the bulk update fails during reevaluate_building_state, POST
\* /buildings/{id}/reevaluate answers 500.
C12_ReevaluateFailureAnswers500 ==
    (last.op = "reevaluate" /\ FailedDuringReevaluate) => last.status = 500

\* The privileged actions, for a request that reached its handler.
PrivilegedActions == {"change_password", "update_query", "create_user", "update_user", "delete_user"}
HandlerRan == last.op = "login" \/ (last.op \in PrivilegedActions /\ last.auth.status = 200)

\* C13: every privileged action (login, password change, query save, user
\* create, user update, user delete), successful or failed, appends exactly
\* one line to the user-activity log.
C13_OneActivityLine == HandlerRan => Len(last.logs) = 1

\* C14: a PUT /admin/users/{id} that carries an is_admin change and a
\* new_password shorter than 6 characters is answered 400, and the target
\* user's is_admin flag and password hash are what they were before.
C14_UpdateUserAllOrNothing ==
    (/\ last.op = "update_user" /\ last.auth.status = 200
     /\ last.user_id \in DOMAIN last.pre
     /\ last.request.is_admin # <<>>
     /\ last.request.new_password # <<>> /\ Len(last.request.new_password[1]) < 6)
    => /\ last.status = 400
       /\ last.user_id \in DOMAIN users
       /\ users[last.user_id].is_admin = last.pre[last.user_id].is_admin
       /\ users[last.user_id].password_hash = last.pre[last.user_id].password_hash

\* The is_admin update that ran before the password was refused would have
\* changed the flag of another user.
C14_Witness ==
    /\ last.op = "update_user" /\ last.auth.status = 200 /\ last.status = 400
    /\ last.user_id \in DOMAIN last.pre
    /\ last.pre[last.user_id].username # last.auth.username
    /\ last.request.is_admin # <<>>
    /\ last.request.is_admin[1] # last.pre[last.user_id].is_admin
    /\ last.request.new_password = <<"12345">>
    /\ last.logs = <<"USER_UPDATED">>

----------------------------------------------------------------------------
\* Properties of the panel-state change sweep

\* The reconciliations of a building in the last sweep.
AppliesOf(b) == SelectSeq(last.applies, LAMBDA a : a.building_id = b)

\* C15: one sweep runs the reconciliation exactly once, with no force list,
\* for every building of the live arm-state map, whether or not its flag
\* differs from the cached one, and runs it for no other building; after the
\* sweep panel_state_cache maps the id of each such building, as a string,
\* to the armed flag of the live map.
C15_SweepAppliesEveryBuilding ==
    last.op = "sweep" =>
        /\ \A b \in Buildings :
              IF b \in DOMAIN last.live
              THEN /\ Len(AppliesOf(b)) = 1
                   /\ AppliesOf(b)[1].force_reactive_ids = {}
                   /\ AppliesOf(b)[1].is_panel_armed = last.live[b]
              ELSE AppliesOf(b) = <<>>
        /\ "panel_state_cache" \in DOMAIN cache
        /\ \A b \in DOMAIN last.live :
              /\ ToString(b) \in DOMAIN cache["panel_state_cache"]
              /\ cache["panel_state_cache"][ToString(b)] = last.live[b]

\* A sweep over two buildings, one whose cached flag equals the live flag
\* and one whose cached flag differs, with a device written.
C15_Witness ==
    /\ last.op = "sweep"
    /\ \E b, c \in DOMAIN last.live :
          /\ ToString(b) \in DOMAIN CachedStates(last.pre_cache)
          /\ CachedStates(last.pre_cache)[ToString(b)] = last.live[b]
          /\ ToString(c) \in DOMAIN CachedStates(last.pre_cache)
          /\ CachedStates(last.pre_cache)[ToString(c)] # last.live[c]
    /\ devState # last.pre

\* The sweep ran the reconciliation of every building of the live map, also
\* of those after a building with a failing call, and did not raise.
SweepIsolation ==
    last.op = "sweep" =>
        /\ ~last.raised
        /\ \A b \in DOMAIN last.live : Len(AppliesOf(b)) = 1

\* The scheduled-time check sent the alert of every due building whose own
\* schedule could be read, also of those after a building whose schedule
\* could not be read, and did not raise.
ScheduledCheckIsolation ==
    (last.op = "scheduled_check" /\ last.tcpOk) =>
        /\ ~last.raised
        /\ \A b \in Buildings : (AlertDue(b) /\ b \notin last.storeFail) => AlertsFor(b) = 1

\* C16: in the panel-state change sweep and in the scheduled-time check an
\* error raised while processing one building is caught, every remaining
\* building is still processed in the same invocation, and neither operation
\* raises.
C16_FailureIsolation == SweepIsolation /\ ScheduledCheckIsolation


\* The forced disarmed profile of a building: 1 for its devices ignored on
\* disarm, 0 for every other device of the building.
InDisarmProfile(ds, building_id) ==
    \A d \in Devices :
        BuildingOf(d) = building_id
        => ds[d] = IF d \in DOMAIN ignoredMap /\ ignoredMap[d].building_frk = building_id
                       /\ ignoredMap[d].ignore_on_disarm
                   THEN 1 ELSE 0

\* The rows of a stored snapshot as a set of (id, state) pairs.
SnapshotPairs(snapshot_data) == {<<snapshot_data[i].id, snapshot_data[i].state>> : i \in DOMAIN snapshot_data}

\* C17: a building has one stored snapshot; a snapshot taken while one is
\* stored replaces it with the device states current at that call, and every
\* snapshot leaves the building in the forced disarmed profile, so these are
\* the states a directly following snapshot stores; a revert restores the
\* states of the latest snapshot, whatever the first one had captured.
C17_SecondSnapshotReplacesFirst ==
    /\ (last.op = "snapshot" /\ last.saved)
       => /\ last.building_id \in DOMAIN snapshots
          /\ SnapshotPairs(snapshots[last.building_id])
               = {<<d, last.pre[d]>> : d \in {e \in Devices : BuildingOf(e) = last.building_id}}
          /\ InDisarmProfile(devState, last.building_id)
    /\ last.op = "revert"
       => /\ SnapshotPairs(last.snapshot_data)
               = {<<d, snapTaken[last.building_id][d]>> : d \in DOMAIN snapTaken[last.building_id]}
          /\ \A d \in DOMAIN snapTaken[last.building_id] :
                devState[d] = snapTaken[last.building_id][d]

\* A second snapshot taken while the building was in the forced profile of
\* the first: it replaced a stored snapshot with different states.
C17_Witness ==
    /\ last.op = "snapshot" /\ last.saved /\ last.replaced
    /\ InDisarmProfile(last.pre, last.building_id)
    /\ last.building_id \in DOMAIN snapFirst
    /\ \E d \in DOMAIN snapFirst[last.building_id] :
          snapFirst[last.building_id][d] # last.pre[d]

\* A revert after a second snapshot: the states restored are those of the
\* second snapshot and differ from what the first had captured.
C17_WitnessRevert ==
    /\ last.op = "revert"
    /\ \E d \in DOMAIN last.first :
          /\ last.first[d] # snapTaken[last.building_id][d]
          /\ devState[d] = snapTaken[last.building_id][d]


\* C18: once a POST /panel_status has completed, the cached panel_armed flag
\* is the value of the last completed POST, whatever GET requests are being
\* served, and a GET that started after that POST returns its value.
C18_GetNeverOverwritesPost ==
    posted # <<>> =>
        /\ get_cache_value(cache, "panel_armed") = posted
        /\ (last.op = "get_panel_status" /\ last.after_post = posted)
           => last.armed = posted[1]


\* C19: a panel-state change sweep never turns a device Reactive: a device
\* whose stored state is 1 before the sweep is 1 after it, whatever the live
\* panel modes and the ignore list are, and no bulk update of the sweep
\* carries a state 0 for such a device.
C19_SweepNeverTurnsReactive ==
    last.op = "sweep" =>
        /\ \A d \in Devices : last.pre[d] = 1 => devState[d] = 1
        /\ \A i \in DOMAIN last.applies :
              \A j \in DOMAIN last.applies[i].calls :
                 \A k \in DOMAIN last.applies[i].calls[j] :
                    last.applies[i].calls[j][k].state = 0
                    => last.pre[last.applies[i].calls[j][k].id] = 0

\* A building seen disarmed by the previous sweep is armed now; its device
\* ignored on disarm only was 1 and is still 1 after the armed sweep.
C19_Witness ==
    /\ last.op = "sweep"
    /\ \E d \in DOMAIN ignoredMap :
          LET b == ignoredMap[d].building_frk
          IN /\ BuildingOf(d) = b
             /\ ignoredMap[d].ignore_on_disarm /\ ~ignoredMap[d].ignore_on_arm
             /\ b \in DOMAIN last.live /\ last.live[b]
             /\ ToString(b) \in DOMAIN CachedStates(last.pre_cache)
             /\ ~CachedStates(last.pre_cache)[ToString(b)]
             /\ last.pre[d] = 1 /\ devState[d] = 1


\* C20: reconciliation is idempotent: a second run of
\* apply_proevent_states_for_building with the same building, panel flag and
\* force list, directly after the first, finds every target equal to the
\* stored state, issues no bulk update and leaves every device state as it was.
C20_ApplyIdempotent ==
    last.op = "apply_again" =>
        /\ \A i \in DOMAIN last.targets :
              last.pre[last.targets[i].id] = last.targets[i].state
        /\ last.calls = <<>>
        /\ devState = last.pre

\* A second run after a first one that had to write: the first run forced a
\* device Reactive and set an ignored device Non-Reactive.
C20_Witness ==
    /\ last.op = "apply_again"
    /\ last.first_calls # <<>>
    /\ last.targets # <<>>
    /\ \E d, e \in Devices :
          /\ last.first_pre[d] = 1 /\ devState[d] = 0 /\ d \in last.force_reactive_ids
          /\ last.first_pre[e] = 0 /\ devState[e] = 1


\* C24: revert_snapshot clears the stored snapshot of a building only when
\* the captured pairs were written back to the external database; when the
\* bulk write-back fails, the snapshot stays stored as it was.
C24_RevertKeepsSnapshotOnFailure ==
    last.op = "revert" =>
        /\ last.building_id \notin DOMAIN snapshots => last.written
        /\ ~last.written
           => /\ last.building_id \in DOMAIN snapshots
              /\ snapshots[last.building_id] = last.snapshot_data


\* The user named by a well-formed Bearer header with a valid token.
TokenUser(header) ==
    IF Len(header) = 2 /\ header[1] \in {"Bearer", "bearer", "BEARER"}
       /\ header[2] \in DOMAIN TokenSubjects
    THEN <<TokenSubjects[header[2]]>> ELSE <<>>

\* C23: admin rights are read from the store at request time: while a user
\* stays demoted (is_admin set to false) or deleted, every request on an
\* admin-only route that carries this user's valid token is answered 403
\* (demoted) or 401 (deleted) and changes nothing in the store.
C23_RevokedTokenRejected ==
    [][(Idle /\ last'.op \in AdminOnlyRoutes /\ TokenUser(last'.authorization) # <<>>
        /\ TokenUser(last'.authorization)[1] \in DOMAIN revoked)
       => /\ last'.status = IF revoked[TokenUser(last'.authorization)[1]] = "demoted" THEN 403 ELSE 401
          /\ StoresUnchanged
          /\ revoked' = revoked]_vars

\* The token of a user who was an administrator and was demoted by another
\* one is presented on an admin-only route and answered 403.
C23_Witness ==
    /\ last.op \in AdminOnlyRoutes
    /\ TokenUser(last.authorization) # <<>>
    /\ TokenUser(last.authorization)[1] \in DOMAIN revoked
    /\ revoked[TokenUser(last.authorization)[1]] = "demoted"
    /\ last.status = 403

\* The token of a user whose row was deleted is answered 401.
C23_WitnessDeleted ==
    /\ last.op \in AdminOnlyRoutes
    /\ TokenUser(last.authorization) # <<>>
    /\ TokenUser(last.authorization)[1] \in DOMAIN revoked
    /\ revoked[TokenUser(last.authorization)[1]] = "deleted"
    /\ last.status = 401


\* C22: the store never loses its last admin: whatever update-user and
\* delete-user requests run and however their authorizations and handler
\* bodies interleave, a user with is_admin = true remains.
C22_AdminRemains ==
    \E i \in DOMAIN users : users[i].is_admin


\* The sweep and the request have both returned, and they worked on the
\* same building, to which the un-ignored device belongs.
BothFinishedOnSameBuilding ==
    /\ DOMAIN pending = {"sweep", "request"}
    /\ pending["sweep"].pc = "done" /\ pending["request"].pc = "done"
    /\ pending["sweep"].building_id = pending["request"].building_id
    /\ \A d \in pending["request"].force_reactive_ids : BuildingOf(d) = pending["request"].building_id

\* C21: a bulk-ignore request that un-ignores a device and forces it
\* Reactive is not undone by a sweep of the same building running at the
\* same time: once both have returned, the device's stored state is 0.
C21_SweepDoesNotUndoUnignore ==
    BothFinishedOnSameBuilding
    => \A d \in pending["request"].force_reactive_ids : devState[d] = 0

====
